---- MODULE Spec2Model ----
(***************************************************************************)
(* REW SPL compliance pipeline: build_database.py (ingestion of REW log    *)
(* files into SQLite, session tagging) and spl_session_summary.py          *)
(* (day/night limit and breach flag of session-mapped readings).           *)
(*                                                                         *)
(* Units.  Decibel levels are integers in twentieths of a dB, so that both *)
(* quarter-dB readings (exact binary floats) and one-decimal values are    *)
(* integers: 50.0 dB = 1000, 80.0 dB = 1600, 60.25 dB = 1205.              *)
(* A time of day is <<hour, minute, second, microsecond>>, compared        *)
(* lexicographically as datetime.time is.  A datetime is a record          *)
(* [day, h, m, s, us]; day 0 is Thursday 2025-05-01.                       *)
(***************************************************************************)
EXTENDS Integers, Naturals, Sequences, FiniteSets, TLC

VARIABLES
    fs,            \* the directory walk: sequence of files [path, content, readable]
    disk,          \* committed content of club_sessions.db
    conn,          \* the open connection's view (committed + pending writes)
    pc,            \* position of the build_database.py script
    idx,           \* number of files of the walk already handled in this run
    bad_files,     \* the in-memory bad_files list of this run
    bad_log,       \* content of bad_files.csv on disk
    session_data,  \* rows prepared by the tagging loop of the latest run
    halted,        \* why the latest run stopped early ("" if it did not)
    runs,          \* number of script runs started
    faults,        \* number of injected store/process faults so far
    GAIN_TO_FACADE,\* configured facade gain of spl_session_summary.py
    probe          \* latest evaluation of a pure function / evaluator row

vars == <<fs, disk, conn, pc, idx, bad_files, bad_log, session_data,
          halted, runs, faults, GAIN_TO_FACADE, probe>>

ingestVars == <<fs, disk, conn, pc, idx, bad_files, bad_log, session_data,
                halted, runs, faults>>

-----------------------------------------------------------------------------
(* Bounds *)

MaxRuns == 2

MaxFaults == 1

MaxFiles == 2

-----------------------------------------------------------------------------
(* datetime helpers *)

\* datetime.weekday(): Monday = 0; day 0 of the model is a Thursday
weekday(dt) == (dt.day + 3) % 7

\* datetime.time()
timeOf(dt) == <<dt.h, dt.m, dt.s, dt.us>>

\* time(h, m, s=0, us=0)
time(h, m, s) == <<h, m, s, 0>>

\* a < b on datetime.time values
TimeLT(a, b) ==
    \/ a[1] < b[1]
    \/ a[1] = b[1] /\ a[2] < b[2]
    \/ a[1] = b[1] /\ a[2] = b[2] /\ a[3] < b[3]
    \/ a[1] = b[1] /\ a[2] = b[2] /\ a[3] = b[3] /\ a[4] < b[4]

\* a <= b on datetime.time values
TimeLE(a, b) == a = b \/ TimeLT(a, b)

-----------------------------------------------------------------------------
(* build_database.py: configuration *)

MIN_SPL_LIMIT == 1000

SESSIONS == <<
    [label |-> "Thursday_21-00", wd |-> 3, start |-> time(21, 0, 0), end |-> time(23, 59, 59)],
    [label |-> "Friday_00-01",   wd |-> 4, start |-> time(0, 0, 0),  end |-> time(1, 0, 0)],
    [label |-> "Friday_01-04",   wd |-> 4, start |-> time(1, 0, 0),  end |-> time(4, 0, 0)],
    [label |-> "Friday_21-00",   wd |-> 4, start |-> time(21, 0, 0), end |-> time(23, 59, 59)],
    [label |-> "Saturday_00-01", wd |-> 5, start |-> time(0, 0, 0),  end |-> time(1, 0, 0)],
    [label |-> "Saturday_01-04", wd |-> 5, start |-> time(1, 0, 0),  end |-> time(4, 0, 0)],
    [label |-> "Saturday_21-00", wd |-> 5, start |-> time(21, 0, 0), end |-> time(23, 59, 59)],
    [label |-> "Sunday_00-01",   wd |-> 6, start |-> time(0, 0, 0),  end |-> time(1, 0, 0)],
    [label |-> "Sunday_01-04",   wd |-> 6, start |-> time(1, 0, 0),  end |-> time(4, 0, 0)],
    [label |-> "Sunday_21-00",   wd |-> 6, start |-> time(21, 0, 0), end |-> time(23, 59, 59)],
    [label |-> "Monday_00-01",   wd |-> 0, start |-> time(0, 0, 0),  end |-> time(1, 0, 0)],
    [label |-> "Monday_01-04",   wd |-> 0, start |-> time(1, 0, 0),  end |-> time(4, 0, 0)] >>

\* session_includes(dt, weekday, start, end); identical in both scripts
session_includes(dt, wd, start, end) ==
    IF TimeLE(start, end)
    THEN weekday(dt) = wd /\ TimeLE(start, timeOf(dt)) /\ TimeLE(timeOf(dt), end)
    ELSE \/ weekday(dt) = wd /\ TimeLE(start, timeOf(dt))
         \/ (weekday(dt) + 1) % 7 = wd /\ TimeLE(timeOf(dt), end)

-----------------------------------------------------------------------------
(* spl_session_summary.py: limits and classification *)

LIMIT_DAY == 1800

LIMIT_NIGHT == 1600

\* is_day with the post-midnight extension cut off before 01:00
is_day_exclusive(ts) ==
    LET wd == weekday(ts)
        t  == timeOf(ts)
    IN  \/ wd \in {6, 0, 1, 2, 3} /\ TimeLE(time(10, 0, 0), t) /\ TimeLE(t, time(23, 59, 0))
        \/ wd = 4 /\ (TimeLE(time(10, 0, 0), t) \/ TimeLT(t, time(1, 0, 0)))
        \/ wd = 5 /\ (TimeLE(time(10, 0, 0), t) \/ TimeLT(t, time(1, 0, 0)))

\* is_day(ts)
is_day(ts) ==
    LET wd == weekday(ts)
        t  == timeOf(ts)
    IN  \/ wd \in {6, 0, 1, 2, 3} /\ TimeLE(time(10, 0, 0), t) /\ TimeLE(t, time(23, 59, 0))
        \/ wd = 4 /\ (TimeLE(time(10, 0, 0), t) \/ TimeLE(t, time(1, 0, 0)))
        \/ wd = 5 /\ (TimeLE(time(10, 0, 0), t) \/ TimeLE(t, time(1, 0, 0)))

\* lambda ts: LIMIT_DAY if is_day(ts) else LIMIT_NIGHT
LimitOf(ts) == IF is_day(ts) THEN LIMIT_DAY ELSE LIMIT_NIGHT

-----------------------------------------------------------------------------
(* Log files.  A content is the byte content of one REW log, described by   *)
(* what the validator and the parser read from it.                          *)

ContentIds == {"G1", "G2", "LOW", "NOEXT", "INV", "NODATE", "NONNUM"}

AllColumns == {"lcs", "lceq", "lceq1m", "lceq10m", "lzpeak"}

Row(lcs, lceq, lceq1m, lceq10m) ==
    [lcs |-> lcs, lceq |-> lceq, lceq1m |-> lceq1m, lceq10m |-> lceq10m]

GoodHeader ==
    [line0REW |-> TRUE, cal |-> TRUE, hasLCS |-> TRUE, hasLAS |-> FALSE,
     virtualMic |-> FALSE, hasDate |-> TRUE, note |-> "plain",
     columns |-> AllColumns, numeric |-> TRUE,
     start |-> [day |-> 1, h |-> 1, m |-> 0, s |-> 0, us |-> 0],
     rows |-> << Row(1300, 1205, 1200, 1200), Row(900, 1200, 1200, 1200) >>]

Content(id) ==
    CASE id = "G1"     -> GoodHeader
      [] id = "G2"     -> [GoodHeader EXCEPT
                             !.note = "club",
                             !.start = [day |-> 0, h |-> 23, m |-> 59, s |-> 59, us |-> 0],
                             !.rows = << Row(1300, 1215, 1200, 1200),
                                         Row(1300, 1200, 1200, 980),
                                         Row(1300, 1624, 1200, 1200) >>]
      [] id = "LOW"    -> [GoodHeader EXCEPT
                             !.rows = << Row(1300, 950, 1200, 1200),
                                         Row(1300, 1200, 990, 1200) >>]
      [] id = "NOEXT"  -> [GoodHeader EXCEPT !.columns = {"lcs", "lceq", "lceq10m", "lzpeak"}]
      [] id = "INV"    -> [GoodHeader EXCEPT !.cal = FALSE]
      [] id = "NODATE" -> [GoodHeader EXCEPT !.hasDate = FALSE]
      [] id = "NONNUM" -> [GoodHeader EXCEPT !.numeric = FALSE]

\* the files a walk of PARENT_DIR can meet: any content, or an entry whose
\* bytes cannot be read (broken link, permission denied)
FileKinds ==
    {[content |-> c, readable |-> TRUE] : c \in ContentIds}
        \cup {[content |-> "G1", readable |-> FALSE]}

\* sequences over S of length 1..n
RECURSIVE SeqsUpTo(_, _)
SeqsUpTo(S, n) ==
    IF n = 0 THEN {<<>>}
    ELSE LET shorter == SeqsUpTo(S, n - 1)
         IN  shorter \cup {Append(q, x) : q \in shorter, x \in S}

\* file_md5sum(fp): the digest identifies the bytes; open() raises on an
\* unreadable file
file_md5sum(f) == IF f.readable THEN f.content ELSE "IOError"

\* is_valid_rew_file(fp)
is_valid_rew_file(f) ==
    LET c == Content(f.content)
    IN  IF ~f.readable THEN FALSE
        ELSE IF c.virtualMic THEN FALSE
        ELSE IF c.hasLAS THEN FALSE
        ELSE c.line0REW /\ c.cal /\ c.hasLCS

\* extract_location(fp)
extract_location(f) ==
    LET c == Content(f.content)
    IN  IF c.note = "absent" THEN "Balcony"
        ELSE IF c.note = "club" THEN "Nightclub"
        ELSE "Balcony"

\* timedelta(seconds = i * time_per_sample) in microseconds
SampleOffset(i) == i * 170666 + (i * 6667 + 5000) \div 10000

\* start_dt + timedelta(microseconds = n)
AddMicros(dt, n) ==
    LET us == dt.us + n
        s  == dt.s + us \div 1000000
        m  == dt.m + s \div 60
        h  == dt.h + m \div 60
    IN  [day |-> dt.day + h \div 24, h |-> h % 24, m |-> m % 60,
         s |-> s % 60, us |-> us % 1000000]

\* parse_header_and_data(fp) succeeds
parse_ok(f) ==
    LET c == Content(f.content)
    IN  c.hasDate /\ {"lcs", "lceq"} \subseteq c.columns

\* the extended-column check of the ingestion loop
has_extended(f) == {"lceq1m", "lceq10m", "lzpeak"} \subseteq Content(f.content).columns

\* the floor filter without its lceq10m term
PassesFloor_no10m(r) ==
    /\ r.lcs >= MIN_SPL_LIMIT
    /\ r.lceq >= MIN_SPL_LIMIT
    /\ r.lceq1m >= MIN_SPL_LIMIT

\* the floor filter on one row
PassesFloor(r) ==
    /\ r.lcs >= MIN_SPL_LIMIT
    /\ r.lceq >= MIN_SPL_LIMIT
    /\ r.lceq1m >= MIN_SPL_LIMIT
    /\ r.lceq10m >= MIN_SPL_LIMIT

\* spl_rows of a file: the surviving rows, with timestamp by original index,
\* source and location
RECURSIVE SplRowsFrom(_, _, _)
SplRowsFrom(f, path, k) ==
    LET c == Content(f.content)
    IN  IF k > Len(c.rows) THEN <<>>
        ELSE LET r == c.rows[k]
                 rest == SplRowsFrom(f, path, k + 1)
                 rec == [timestamp |-> AddMicros(c.start, SampleOffset(k - 1)),
                         lceq |-> r.lceq, lceq1m |-> r.lceq1m,
                         lceq10m |-> r.lceq10m, lcs |-> r.lcs,
                         source |-> path, location |-> extract_location(f)]
             IN  IF PassesFloor(r) THEN <<rec>> \o rest ELSE rest

spl_rows(f, path) == SplRowsFrom(f, path, 1)

-----------------------------------------------------------------------------
(* The SQLite store.  spl_data and sessions are tables with a rowid, kept   *)
(* as sequences of rows; processed_files is a set of [md5sum, source].      *)

EmptyDb == [spl |-> <<>>, processed |-> {}, sessions |-> <<>>]

\* SELECT 1 FROM processed_files WHERE md5sum = ?
AlreadyProcessed(db, md5) == \E p \in db.processed : p.md5sum = md5

\* round(lceq, 1) of Python: nearest tenth, an exact tie to the even tenth
PyRound1(x) ==
    IF x % 2 = 0 THEN x
    ELSE IF ((x - 1) \div 2) % 2 = 0 THEN x - 1 ELSE x + 1

\* ROUND(lceq, 1) of SQLite: nearest tenth, a tie away from zero
SqlRound1(x) == IF x % 2 = 0 THEN x ELSE x + 1

\* SELECT session, date, time, ROUND(lceq,1), source FROM sessions
existing_session_keys(db) ==
    {<<db.sessions[k].session, db.sessions[k].date, db.sessions[k].time,
       SqlRound1(db.sessions[k].lceq), db.sessions[k].source>> :
        k \in 1..Len(db.sessions)}

\* row_key of a reading under a session label
row_key(label, r) ==
    <<label, r.timestamp.day, timeOf(r.timestamp), PyRound1(r.lceq), r.source>>

\* the dedup test without the lookup in the persisted keys
IsNewKey_seenOnly(key, seen, existing) == key \notin seen

\* the dedup test of the tagging loop
IsNewKey(key, seen, existing) == key \notin seen /\ key \notin existing

\* the nested tagging loop: pair n = (window, reading), windows outermost;
\* returns session_data
RECURSIVE TagLoop(_, _, _, _, _)
TagLoop(n, all_rows, existing, seen, out) ==
    IF n > Len(SESSIONS) * Len(all_rows) THEN out
    ELSE LET w   == SESSIONS[((n - 1) \div Len(all_rows)) + 1]
             r   == all_rows[((n - 1) % Len(all_rows)) + 1]
             key == row_key(w.label, r)
         IN  IF session_includes(r.timestamp, w.wd, w.start, w.end)
                /\ IsNewKey(key, seen, existing)
             THEN TagLoop(n + 1, all_rows, existing, seen \cup {key},
                          Append(out, [session |-> key[1], date |-> key[2],
                                       time |-> key[3], lceq |-> key[4],
                                       source |-> key[5], plot |-> "None",
                                       location |-> r.location]))
             ELSE TagLoop(n + 1, all_rows, existing, seen, out)

\* session_data prepared over a store
PrepareTags(db) == TagLoop(1, db.spl, existing_session_keys(db), {}, <<>>)

\* UNIQUE(session, date, time, lceq, source)
SameUnique(a, b) ==
    /\ a.session = b.session /\ a.date = b.date /\ a.time = b.time
    /\ a.lceq = b.lceq /\ a.source = b.source

\* executemany("INSERT OR IGNORE INTO sessions ...", session_data)
RECURSIVE InsertOrIgnore(_, _, _)
InsertOrIgnore(table, data, k) ==
    IF k > Len(data) THEN table
    ELSE IF \E j \in 1..Len(table) : SameUnique(table[j], data[k])
         THEN InsertOrIgnore(table, data, k + 1)
         ELSE InsertOrIgnore(Append(table, data[k]), data, k + 1)

-----------------------------------------------------------------------------
(* build_database.py as a state machine *)

Init ==
    /\ fs \in (SeqsUpTo(FileKinds, MaxFiles) \ {<<>>})
    /\ disk = EmptyDb
    /\ conn = EmptyDb
    /\ pc = "idle"
    /\ idx = 0
    /\ bad_files = <<>>
    /\ bad_log = <<>>
    /\ session_data = <<>>
    /\ halted = ""
    /\ runs = 0
    /\ faults = 0
    /\ GAIN_TO_FACADE = 0
    /\ probe = [kind |-> "none"]

\* the script starts: init_db opens the store
Start ==
    /\ pc = "idle"
    /\ runs < MaxRuns
    /\ runs' = runs + 1
    /\ pc' = "ingest"
    /\ conn' = disk
    /\ idx' = 0
    /\ bad_files' = <<>>
    /\ session_data' = <<>>
    /\ halted' = ""
    /\ UNCHANGED <<fs, disk, bad_log, faults, GAIN_TO_FACADE, probe>>

\* sqlite3.connect raises: the store cannot be opened, the run ends at once
StartFails ==
    /\ pc = "idle"
    /\ runs < MaxRuns
    /\ faults < MaxFaults
    /\ runs' = runs + 1
    /\ faults' = faults + 1
    /\ halted' = "open"
    /\ UNCHANGED <<fs, disk, conn, pc, idx, bad_files, bad_log, session_data, GAIN_TO_FACADE, probe>>

\* an exception leaves the script: the process ends, the connection is
\* dropped with its pending writes, bad_files.csv is not written
Raise(reason, persisted) ==
    /\ pc' = "idle"
    /\ disk' = persisted
    /\ conn' = persisted
    /\ halted' = reason
    /\ UNCHANGED <<fs, idx, bad_files, bad_log, session_data, runs, GAIN_TO_FACADE, probe>>

\* `continue`, with or without bad_files.append(fp)
NextFile(newBad) ==
    /\ idx' = idx + 1
    /\ bad_files' = newBad
    /\ UNCHANGED <<fs, disk, conn, pc, bad_log, session_data, halted, runs, faults, GAIN_TO_FACADE, probe>>

\* one iteration of the per-file loop body.  DataFrame.to_sql on a sqlite3
\* connection runs in its own transaction and commits the connection when it
\* succeeds (rolls it back when it fails); the INSERT into processed_files
\* stays pending until the next commit.
ProcessFile ==
    /\ pc = "ingest"
    /\ idx < Len(fs)
    /\ LET path == idx + 1
           f    == fs[path]
           md5  == file_md5sum(f)
           rows == spl_rows(f, path)
           withRows == [conn EXCEPT !.spl = conn.spl \o rows]
       IN  IF md5 = "IOError"
           THEN Raise("md5", disk) /\ UNCHANGED faults
           ELSE IF AlreadyProcessed(conn, md5)
           THEN NextFile(bad_files)
           ELSE IF ~is_valid_rew_file(f)
           THEN NextFile(Append(bad_files, path))
           ELSE IF ~parse_ok(f)
           THEN NextFile(Append(bad_files, path))
           ELSE IF ~has_extended(f)
           THEN NextFile(bad_files)
           ELSE IF ~Content(f.content).numeric
           THEN Raise("data", disk) /\ UNCHANGED faults
           ELSE IF rows = <<>>
           THEN NextFile(bad_files)
           ELSE \/ /\ disk' = withRows
                   /\ conn' = [withRows EXCEPT
                                 !.processed = @ \cup {[md5sum |-> md5, source |-> path]}]
                   /\ idx' = idx + 1
                   /\ UNCHANGED <<fs, pc, bad_files, bad_log, session_data,
                                  halted, runs, faults, GAIN_TO_FACADE, probe>>
                \/ /\ faults < MaxFaults
                   /\ faults' = faults + 1
                   /\ Raise("to_sql", disk)
                \/ /\ faults < MaxFaults
                   /\ faults' = faults + 1
                   /\ Raise("insert", withRows)

\* after the loop: conn.commit() and the bad-files report
FinishIngest ==
    /\ pc = "ingest"
    /\ idx = Len(fs)
    /\ disk' = conn
    /\ bad_log' = IF bad_files # <<>> THEN bad_files ELSE bad_log
    /\ pc' = "tag"
    /\ UNCHANGED <<fs, conn, idx, bad_files, session_data, halted, runs, faults, GAIN_TO_FACADE, probe>>

\* the tagging part of the script, up to conn.close()
Tag ==
    /\ pc = "tag"
    /\ LET data   == PrepareTags(conn)
           tagged == [conn EXCEPT !.sessions = InsertOrIgnore(conn.sessions, data, 1)]
       IN  /\ session_data' = data
           /\ disk' = IF data # <<>> THEN tagged ELSE disk
           /\ conn' = IF data # <<>> THEN tagged ELSE disk
    /\ pc' = "idle"
    /\ UNCHANGED <<fs, idx, bad_files, bad_log, halted, runs, faults, GAIN_TO_FACADE, probe>>

\* the process is killed (power loss, kill -9) while the script runs
Crash ==
    /\ pc # "idle"
    /\ faults < MaxFaults
    /\ faults' = faults + 1
    /\ pc' = "idle"
    /\ conn' = disk
    /\ halted' = "crash"
    /\ UNCHANGED <<fs, disk, idx, bad_files, bad_log, session_data, runs, GAIN_TO_FACADE, probe>>

Next == Start \/ StartFails \/ ProcessFile \/ FinishIngest \/ Tag \/ Crash

Spec == Init /\ [][Next]_vars

-----------------------------------------------------------------------------
(* spl_session_summary.py: one row of all_df, and the pure functions        *)
(* applied to inputs drawn from bounded sets                                *)

ProbeTimes ==
    {<<h, m, s, us>> : h \in {0, 1, 2, 9, 10, 11, 21, 23}, m \in {0, 30, 59},
                       s \in {0, 59}, us \in {0, 1}}

ProbeStamps ==
    {[day |-> d, h |-> t[1], m |-> t[2], s |-> t[3], us |-> t[4]] :
        d \in 0..6, t \in ProbeTimes}

\* the configured windows and windows that wrap midnight
ProbeWindows ==
    {[wd |-> SESSIONS[k].wd, start |-> SESSIONS[k].start, end |-> SESSIONS[k].end] :
        k \in 1..Len(SESSIONS)}
    \cup {[wd |-> w, start |-> time(23, 0, 0), end |-> time(1, 0, 0)] : w \in 0..6}

\* 70.0, 79.9, 80.0, 81.2, 90.0, 90.1 dB
ProbeLevels == {1400, 1598, 1600, 1624, 1800, 1802}

\* 0 (the shipped value 18.9 * 0) and 18.9 dB
Gains == {0, 378}

\* the inputs: a timestamp with a window, a timestamp alone, or a reading
ProbeInputs ==
    {[kind |-> "includes?", ts |-> ts, w |-> w] : ts \in ProbeStamps, w \in ProbeWindows}
    \cup {[kind |-> "is_day?", ts |-> ts] : ts \in ProbeStamps}
    \cup {[kind |-> "row?", ts |-> ts, lceq |-> l] : ts \in ProbeStamps, l \in ProbeLevels}

ProbeInit ==
    /\ fs = <<[content |-> "G1", readable |-> TRUE]>>
    /\ disk = EmptyDb
    /\ conn = EmptyDb
    /\ pc = "idle"
    /\ idx = 0
    /\ bad_files = <<>>
    /\ bad_log = <<>>
    /\ session_data = <<>>
    /\ halted = ""
    /\ runs = 0
    /\ faults = 0
    /\ GAIN_TO_FACADE \in Gains
    /\ probe \in ProbeInputs

\* session_includes applied to a timestamp and a window
ProbeIncludes ==
    /\ probe.kind = "includes?"
    /\ probe' = [kind |-> "includes", ts |-> probe.ts, wd |-> probe.w.wd,
                 start |-> probe.w.start, end |-> probe.w.end,
                 res |-> session_includes(probe.ts, probe.w.wd, probe.w.start, probe.w.end)]
    /\ UNCHANGED <<ingestVars, GAIN_TO_FACADE>>

\* is_day and the Limit lambda applied to a timestamp
ProbeIsDay ==
    /\ probe.kind = "is_day?"
    /\ probe' = [kind |-> "is_day", ts |-> probe.ts, res |-> is_day(probe.ts),
                 limit |-> LimitOf(probe.ts)]
    /\ UNCHANGED <<ingestVars, GAIN_TO_FACADE>>

\* Est_LCeq of a session-mapped reading
Est_LCeq(lceq) == lceq

\* one row of all_df: a reading of spl_data selected by some session window,
\* with its Est_LCeq, Limit and Breached columns
EvaluateRow ==
    /\ probe.kind = "row?"
    /\ \E k \in 1..Len(SESSIONS) :
         session_includes(probe.ts, SESSIONS[k].wd, SESSIONS[k].start, SESSIONS[k].end)
    /\ probe' = [kind |-> "row", ts |-> probe.ts, lceq |-> probe.lceq,
                 Est_LCeq |-> Est_LCeq(probe.lceq), Limit |-> LimitOf(probe.ts),
                 Breached |-> Est_LCeq(probe.lceq) > LimitOf(probe.ts)]
    /\ UNCHANGED <<ingestVars, GAIN_TO_FACADE>>

ProbeNext == ProbeIncludes \/ ProbeIsDay \/ EvaluateRow

SpecProbe == ProbeInit /\ [][ProbeNext]_vars

-----------------------------------------------------------------------------
(* Properties *)

\* the content behind the source path of a stored reading
ContentOfSource(path) == fs[path].content

\* number of spl_data rows of a store that come from content c
ReadingsFrom(db, c) ==
    Cardinality({k \in 1..Len(db.spl) : ContentOfSource(db.spl[k].source) = c})

\* number of rows of content c that are at or above the floor in all four fields
Survivors(c) ==
    Cardinality({k \in 1..Len(Content(c).rows) :
        LET r == Content(c).rows[k]
        IN  r.lcs >= 1000 /\ r.lceq >= 1000 /\ r.lceq1m >= 1000 /\ r.lceq10m >= 1000})

RecordsOf(db, c) == {p \in db.processed : p.md5sum = c}

\* C1: as long as no store or process fault was injected, the readings of a
\* content are in spl_data at most once, processed_files holds at most one
\* record per hash, and a recorded hash has its readings exactly once.
C1_IngestOncePerContent ==
    faults = 0 =>
        \A c \in ContentIds :
            /\ ReadingsFrom(disk, c) <= Survivors(c)
            /\ ReadingsFrom(conn, c) <= Survivors(c)
            /\ Cardinality(RecordsOf(conn, c)) <= 1
            /\ RecordsOf(conn, c) # {} => ReadingsFrom(conn, c) = Survivors(c)

\* C2: for a window that wraps midnight (start > end) on weekday w, a
\* timestamp matches iff it is on weekday w at or after start, or on the day
\* after w at or before end.
C2_WrapAttributesNextDay ==
    (probe.kind = "includes" /\ TimeLT(probe.end, probe.start)) =>
        (probe.res <=>
            \/ weekday(probe.ts) = probe.wd /\ TimeLE(probe.start, timeOf(probe.ts))
            \/ weekday(probe.ts) = (probe.wd + 1) % 7 /\ TimeLE(timeOf(probe.ts), probe.end))

\* C3: whenever the script is not running (it finished, raised or was
\* killed), every reading in the committed spl_data has a committed
\* processed_files record for its source.
C3_BatchAndRecordAtomic ==
    pc = "idle" =>
        \A k \in 1..Len(disk.spl) :
            \E p \in disk.processed : p.source = disk.spl[k].source

\* the key of a sessions row: (session, date, time, lceq to 1 decimal, source)
TagKey(row) == <<row.session, row.date, row.time, SqlRound1(row.lceq), row.source>>

NoDuplicateTags(db) ==
    \A i, j \in 1..Len(db.sessions) :
        TagKey(db.sessions[i]) = TagKey(db.sessions[j]) => i = j

\* C4: once a run has completed its tagging, running the allocator again
\* over the same store prepares zero new tags; and the sessions table never
\* holds two rows with the same key.
C4_AllocationIdempotent ==
    /\ (pc = "idle" /\ runs > 0 /\ halted = "") => PrepareTags(disk) = <<>>
    /\ NoDuplicateTags(disk)
    /\ NoDuplicateTags(conn)

\* a second complete run over a store that already holds tags prepared none
C4_Witness ==
    /\ pc = "idle" /\ runs = 2 /\ halted = ""
    /\ Len(disk.sessions) >= 2
    /\ Len(disk.spl) >= 1
    /\ session_data = <<>>

\* the elements of a sequence
Range(q) == {q[k] : k \in 1..Len(q)}

\* C5: when the run reaches the bad-files report, every file that passed
\* validation and parsing but lacks an extended column is listed in the
\* report and has no processed_files record.
C5_MissingExtendedIsReported ==
    pc = "tag" =>
        \A path \in 1..Len(fs) :
            (/\ fs[path].readable
             /\ is_valid_rew_file(fs[path])
             /\ parse_ok(fs[path])
             /\ ~({"lceq1m", "lceq10m", "lzpeak"} \subseteq Content(fs[path].content).columns))
            => /\ path \in Range(bad_log)
               /\ ~AlreadyProcessed(disk, fs[path].content)

\* C6: a row is flagged as a breach iff its LCeq plus the configured facade
\* gain is strictly above the limit applied to it.
C6_BreachUsesAdjustedLevel ==
    probe.kind = "row" =>
        (probe.Breached <=> probe.lceq + GAIN_TO_FACADE > probe.Limit)

\* C7: no failure inside the processing of one file ends the run: the run
\* is never stopped by an unreadable file, by non-numeric data or by a
\* failed write of a file's readings or of its processed_files record.
C7_NoFileFailureHaltsRun ==
    halted \notin {"md5", "data", "to_sql", "insert"}

\* C8: every reading in spl_data (committed or pending) has lcs, lceq,
\* lceq1m and lceq10m at or above 50.0 dB, and a file whose rows all fail
\* the filter has no reading in spl_data.
C8_StoredReadingsAboveFloor ==
    \A db \in {disk, conn} :
        /\ \A k \in 1..Len(db.spl) :
             /\ db.spl[k].lcs >= 1000
             /\ db.spl[k].lceq >= 1000
             /\ db.spl[k].lceq1m >= 1000
             /\ db.spl[k].lceq10m >= 1000
        /\ \A c \in ContentIds : Survivors(c) = 0 => ReadingsFrom(db, c) = 0

\* a file with one row failing only on lceq10m was ingested: its two other
\* rows are committed, and a file with no surviving row was passed over
C8_Witness ==
    /\ ReadingsFrom(disk, "G2") = 2
    /\ Len(Content("G2").rows) = 3
    /\ \E path \in 1..Len(fs) : fs[path].content = "LOW" /\ fs[path].readable
    /\ pc = "tag"

\* the classification as the claim words it, on hour, minute, second, microsecond
ClaimedDay(wd, t) ==
    LET from10    == t[1] >= 10
        upTo2359  == t[1] < 23 \/ (t[1] = 23 /\ (t[2] < 59 \/ (t[2] = 59 /\ t[3] = 0 /\ t[4] = 0)))
        upTo0100  == t[1] = 0 \/ (t[1] = 1 /\ t[2] = 0 /\ t[3] = 0 /\ t[4] = 0)
    IN  \/ wd \in {6, 0, 1, 2, 3} /\ from10 /\ upTo2359
        \/ wd \in {4, 5} /\ (from10 \/ upTo0100)

\* C9: is_day answers from weekday and time of day alone, exactly as the
\* claim's table; Friday 00:30 is day, Friday 09:00 night, Sunday 11:00 day,
\* Wednesday 02:00 night; the limit is 90.0 dB for day and 80.0 dB for night.
C9_DayNightClassification ==
    probe.kind = "is_day" =>
        LET wd == weekday(probe.ts)
            t  == timeOf(probe.ts)
        IN  /\ probe.res <=> ClaimedDay(wd, t)
            /\ probe.limit = IF ClaimedDay(wd, t) THEN 1800 ELSE 1600
            /\ (wd = 4 /\ t = <<0, 30, 0, 0>>) => probe.res
            /\ (wd = 4 /\ t = <<9, 0, 0, 0>>) => ~probe.res
            /\ (wd = 6 /\ t = <<11, 0, 0, 0>>) => probe.res
            /\ (wd = 2 /\ t = <<2, 0, 0, 0>>) => ~probe.res

\* Saturday 01:00:00.000000 was classified: day, limit 90.0 dB
C9_Witness ==
    /\ probe.kind = "is_day"
    /\ weekday(probe.ts) = 5
    /\ timeOf(probe.ts) = <<1, 0, 0, 0>>
    /\ probe.res
    /\ probe.limit = 1800

\* C10: no reading has tags for two different session labels.
C10_AtMostOneWindowPerReading ==
    \A i, j \in 1..Len(disk.sessions) :
        (/\ disk.sessions[i].date = disk.sessions[j].date
         /\ disk.sessions[i].time = disk.sessions[j].time
         /\ disk.sessions[i].source = disk.sessions[j].source)
        => disk.sessions[i].session = disk.sessions[j].session

-----------------------------------------------------------------------------
(* spl_session_summary.py as a whole: load spl_data, map the readings to    *)
(* session instances, classify them, export the two CSV reports             *)

\* a <= b on datetimes
DtLE(a, b) == a.day < b.day \/ (a.day = b.day /\ TimeLE(timeOf(a), timeOf(b)))

\* the readings the loaded df can hold: Thursday 22:00, Friday 00:30,
\* Friday 01:00 (two windows), Friday 02:00, Friday 09:00 (no window),
\* at 79.9, 81.2 or 90.1 dB
SummaryStamps ==
    {[day |-> 0, h |-> 22, m |-> 0, s |-> 0, us |-> 0],
     [day |-> 1, h |-> 0, m |-> 30, s |-> 0, us |-> 0],
     [day |-> 1, h |-> 1, m |-> 0, s |-> 0, us |-> 0],
     [day |-> 1, h |-> 2, m |-> 0, s |-> 0, us |-> 0],
     [day |-> 1, h |-> 9, m |-> 0, s |-> 0, us |-> 0]}

SummaryLevels == {1598, 1624, 1802}

SummaryReadings == {[timestamp |-> ts, lceq |-> l] : ts \in SummaryStamps, l \in SummaryLevels}

MaxReadings == 2

\* indices of the df rows selected for window k on calendar day d
GroupOf(df, k, d) ==
    {i \in 1..Len(df) :
        /\ df[i].timestamp.day = d
        /\ session_includes(df[i].timestamp, SESSIONS[k].wd, SESSIONS[k].start, SESSIONS[k].end)}

\* daily_group['timestamp'].min()
EpochOf(df, g) == CHOOSE e \in {df[i].timestamp : i \in g} :
                      \A i \in g : DtLE(e, df[i].timestamp)

\* the session-mapping loop: pair n = (window, df row), windows outermost;
\* each selected row is appended with its Session id and Epoch
RECURSIVE MapRows(_, _, _)
MapRows(n, df, out) ==
    IF n > Len(SESSIONS) * Len(df) THEN out
    ELSE LET k == ((n - 1) \div Len(df)) + 1
             i == ((n - 1) % Len(df)) + 1
             r == df[i]
         IN  IF session_includes(r.timestamp, SESSIONS[k].wd, SESSIONS[k].start, SESSIONS[k].end)
             THEN MapRows(n + 1, df,
                    Append(out, [timestamp |-> r.timestamp, lceq |-> r.lceq,
                                 Session |-> <<r.timestamp.day, SESSIONS[k].label>>,
                                 Epoch |-> EpochOf(df, GroupOf(df, k, r.timestamp.day))]))
             ELSE MapRows(n + 1, df, out)

\* all_df with the Est_LCeq, Limit and Breached columns
RECURSIVE Classify(_, _)
Classify(rows, k) ==
    IF k > Len(rows) THEN <<>>
    ELSE << [timestamp |-> rows[k].timestamp, lceq |-> rows[k].lceq,
             Session |-> rows[k].Session, Epoch |-> rows[k].Epoch,
             Est_LCeq |-> Est_LCeq(rows[k].lceq),
             Limit |-> LimitOf(rows[k].timestamp),
             Breached |-> Est_LCeq(rows[k].lceq) > LimitOf(rows[k].timestamp)] >>
         \o Classify(rows, k + 1)

\* the summary list as exported: initialised empty, nothing is appended
SummaryRows(all_df) == <<>>

\* the breaches list as exported: initialised empty, nothing is appended
BreachRows(all_df) == <<>>

SummaryInit ==
    /\ fs = <<[content |-> "G1", readable |-> TRUE]>>
    /\ disk = EmptyDb
    /\ conn = EmptyDb
    /\ pc = "idle"
    /\ idx = 0
    /\ bad_files = <<>>
    /\ bad_log = <<>>
    /\ session_data = <<>>
    /\ halted = ""
    /\ runs = 0
    /\ faults = 0
    /\ GAIN_TO_FACADE = 0
    /\ \E df \in (SeqsUpTo(SummaryReadings, MaxReadings) \ {<<>>}) :
         probe = [kind |-> "df?", df |-> df]

\* one run of the script.  The previous reports are removed first; with no
\* session-mapped row all_df has no 'lceq' column, line 102 raises and
\* nothing is exported.
RunSummary ==
    /\ probe.kind = "df?"
    /\ LET rows   == MapRows(1, probe.df, <<>>)
           all_df == Classify(rows, 1)
       IN  probe' = IF rows = <<>>
                    THEN [kind |-> "summary", df |-> probe.df, all_df |-> <<>>,
                          exported |-> FALSE, summary |-> <<>>, breaches |-> <<>>]
                    ELSE [kind |-> "summary", df |-> probe.df, all_df |-> all_df,
                          exported |-> TRUE, summary |-> SummaryRows(all_df),
                          breaches |-> BreachRows(all_df)]
    /\ UNCHANGED <<ingestVars, GAIN_TO_FACADE>>

SummaryNext == RunSummary

SpecSummary == SummaryInit /\ [][SummaryNext]_vars

\* the largest Est_LCeq of a session instance
MaxEstOf(all_df, sid) ==
    CHOOSE v \in {all_df[k].Est_LCeq : k \in {j \in 1..Len(all_df) : all_df[j].Session = sid}} :
        \A k \in 1..Len(all_df) : all_df[k].Session = sid => all_df[k].Est_LCeq <= v

\* the number of breaching readings of a session instance
BreachCountOf(all_df, sid) ==
    Cardinality({k \in 1..Len(all_df) : all_df[k].Session = sid /\ all_df[k].Breached})

\* C11: after a run of the evaluator, every session instance with a tagged
\* reading has a summary row carrying its maximum adjusted LCeq, the
\* timestamp of a reading at that maximum and its number of breaching
\* readings; and the breach report is non-empty when a tagged reading breaches.
C11_SummaryCoversEveryInstance ==
    probe.kind = "summary" =>
        /\ \A k \in 1..Len(probe.all_df) :
             LET sid == probe.all_df[k].Session
             IN  \E j \in 1..Len(probe.summary) :
                    /\ probe.summary[j].Session = sid
                    /\ probe.summary[j].max = MaxEstOf(probe.all_df, sid)
                    /\ \E i \in 1..Len(probe.all_df) :
                          /\ probe.all_df[i].Session = sid
                          /\ probe.all_df[i].Est_LCeq = probe.summary[j].max
                          /\ probe.all_df[i].timestamp = probe.summary[j].at
                    /\ probe.summary[j].breaches = BreachCountOf(probe.all_df, sid)
        /\ (\E k \in 1..Len(probe.all_df) : probe.all_df[k].Breached)
              => probe.breaches # <<>>

====
